---- MODULE Spec2Model ----
(***************************************************************************)
(* A model of json-rs: the tokeniser (src/lexer.rs), the recursive-descent *)
(* parser (src/parser.rs), the two one-item-lookahead cursors              *)
(* (src/utils.rs) and the tokenise-then-parse pipeline (src/main.rs).      *)
(*                                                                         *)
(* A Rust char is modelled by its code point (an integer), a String by a   *)
(* sequence of code points, Option<T> by a sequence of length 0 or 1, and  *)
(* a panic by a non-empty message in the "panic" field of a result.        *)
(***************************************************************************)
EXTENDS Integers, Sequences, FiniteSets, TLC

(***************************************************************************)
(* Characters.                                                             *)
(***************************************************************************)

\* The code point of each character the model writes as a literal.
Ord ==
    ("\t" :> 9) @@ ("\n" :> 10) @@ ("\f" :> 12) @@ ("\r" :> 13) @@ (" " :> 32) @@ ("!" :> 33) @@
    ("\"" :> 34) @@ ("#" :> 35) @@ ("$" :> 36) @@ ("%" :> 37) @@ ("&" :> 38) @@ ("'" :> 39) @@
    ("(" :> 40) @@ (")" :> 41) @@ ("*" :> 42) @@ ("+" :> 43) @@ ("," :> 44) @@ ("-" :> 45) @@
    ("." :> 46) @@ ("/" :> 47) @@ ("0" :> 48) @@ ("1" :> 49) @@ ("2" :> 50) @@ ("3" :> 51) @@
    ("4" :> 52) @@ ("5" :> 53) @@ ("6" :> 54) @@ ("7" :> 55) @@ ("8" :> 56) @@ ("9" :> 57) @@
    (":" :> 58) @@ (";" :> 59) @@ ("<" :> 60) @@ ("=" :> 61) @@ (">" :> 62) @@ ("?" :> 63) @@
    ("@" :> 64) @@ ("A" :> 65) @@ ("B" :> 66) @@ ("C" :> 67) @@ ("D" :> 68) @@ ("E" :> 69) @@
    ("F" :> 70) @@ ("G" :> 71) @@ ("H" :> 72) @@ ("I" :> 73) @@ ("J" :> 74) @@ ("K" :> 75) @@
    ("L" :> 76) @@ ("M" :> 77) @@ ("N" :> 78) @@ ("O" :> 79) @@ ("P" :> 80) @@ ("Q" :> 81) @@
    ("R" :> 82) @@ ("S" :> 83) @@ ("T" :> 84) @@ ("U" :> 85) @@ ("V" :> 86) @@ ("W" :> 87) @@
    ("X" :> 88) @@ ("Y" :> 89) @@ ("Z" :> 90) @@ ("[" :> 91) @@ ("\\" :> 92) @@ ("]" :> 93) @@
    ("^" :> 94) @@ ("_" :> 95) @@ ("a" :> 97) @@ ("b" :> 98) @@ ("c" :> 99) @@
    ("d" :> 100) @@ ("e" :> 101) @@ ("f" :> 102) @@ ("g" :> 103) @@ ("h" :> 104) @@ ("i" :> 105) @@
    ("j" :> 106) @@ ("k" :> 107) @@ ("l" :> 108) @@ ("m" :> 109) @@ ("n" :> 110) @@ ("o" :> 111) @@
    ("p" :> 112) @@ ("q" :> 113) @@ ("r" :> 114) @@ ("s" :> 115) @@ ("t" :> 116) @@ ("u" :> 117) @@
    ("v" :> 118) @@ ("w" :> 119) @@ ("x" :> 120) @@ ("y" :> 121) @@ ("z" :> 122) @@ ("{" :> 123) @@
    ("|" :> 124) @@ ("}" :> 125) @@ ("~" :> 126)

\* A char range lo..=hi of a Rust match pattern.
InRange(ch, lo, hi) == ch \in Ord[lo]..Ord[hi]

\* The pattern 0..=9.
IsDigit(ch) == InRange(ch, "0", "9")

\* The pattern 0..=9 | a..=f | A..=F.
IsHexDigit(ch) == IsDigit(ch) \/ InRange(ch, "a", "f") \/ InRange(ch, "A", "F")

\* The pattern a..=z | A..=Z | _ .
IsNameStart(ch) == InRange(ch, "a", "z") \/ InRange(ch, "A", "Z") \/ ch = Ord["_"]

\* The pattern a..=z | A..=Z | 0..=9 | _ .
IsNameChar(ch) == IsNameStart(ch) \/ IsDigit(ch)

\* A text written character by character, as the sequence of its code points.
Str(s) == [i \in 1..Len(s) |-> Ord[s[i]]]

(***************************************************************************)
(* Option<T>.                                                              *)
(***************************************************************************)

None == <<>>

Some(x) == <<x>>

IsNone(o) == Len(o) = 0

IsSome(o) == Len(o) = 1

Unwrap(o) == o[1]

(***************************************************************************)
(* The cursors of src/utils.rs.                                            *)
(***************************************************************************)

\* CharIter::new and TokenIter::new: the first item is the lookahead.
IterNew(s) ==
    IF Len(s) = 0 THEN [remaining |-> <<>>, next |-> None]
    ELSE [remaining |-> Tail(s), next |-> Some(Head(s))]

\* peek(): the lookahead, the cursor unchanged.
Peek(it) == it.next

\* next() that leaves the lookahead in place when nothing remains.
AdvanceKeepsLast(it) ==
    IF Len(it.remaining) = 0 THEN it
    ELSE [remaining |-> Tail(it.remaining), next |-> Some(Head(it.remaining))]

\* next(): the cursor after the call (the call returns Peek(it)).
Advance(it) ==
    IF Len(it.remaining) = 0 THEN [remaining |-> <<>>, next |-> None]
    ELSE [remaining |-> Tail(it.remaining), next |-> Some(Head(it.remaining))]

\* The items the cursor has not yet returned, in order.
Rest(it) == it.next \o it.remaining

(***************************************************************************)
(* Tokens (src/token.rs) and positions (src/utils.rs).                     *)
(***************************************************************************)

TokenType ==
    {"Int", "String", "Float", "Name", "LSqBrac", "RSqBrac", "LBrace", "RBrace",
     "Comma", "Colon"}

\* Token::new(tok_type, value, line, column).
Token(tok_type, value, line, column) ==
    [tok_type |-> tok_type, value |-> value, line_no |-> line, col_no |-> column]

\* The Pos tokenise starts from.
StartPos == [line |-> 1, column |-> 1]

\* pos.column += n.
AddColumn(pos, n) == [pos EXCEPT !.column = @ + n]

(***************************************************************************)
(* The tokeniser's productions (src/lexer.rs).  Each takes the character   *)
(* cursor and the position and returns them as the call leaves them, with  *)
(* what the call returns in "out"; "panic" is the message of the panic     *)
(* that ended the call, or "" when it returned.                            *)
(***************************************************************************)

LexOk(chars, pos, out) == [panic |-> "", chars |-> chars, pos |-> pos, out |-> out]

LexPanic(msg, chars, pos) == [panic |-> msg, chars |-> chars, pos |-> pos, out |-> <<>>]

\* A call that panicked ends its caller too; one that returned is continued by Then.
LexBind(r, Then(_)) == IF r.panic # "" THEN r ELSE Then(r)

\* The value of one hex digit.
HexDigitValue(ch) ==
    IF IsDigit(ch) THEN ch - Ord["0"]
    ELSE IF InRange(ch, "a", "f") THEN ch - Ord["a"] + 10
    ELSE ch - Ord["A"] + 10

\* u32::from_str_radix(hex, 16) on a string of hex digits.
RECURSIVE from_str_radix(_)
from_str_radix(hex) ==
    IF Len(hex) = 0 THEN 0
    ELSE 16 * from_str_radix(SubSeq(hex, 1, Len(hex) - 1)) + HexDigitValue(hex[Len(hex)])

\* char::from_u32: no char for a surrogate code point or one past 0x10FFFF.
from_u32(n) ==
    IF n \in 55296..57343 \/ n > 1114111 THEN None ELSE Some(n)

\* char::from_u32(u32::from_str_radix(hex, 16).unwrap()).unwrap()
HexToChar(chars, pos, hex) ==
    IF IsNone(from_u32(from_str_radix(hex)))
    THEN LexPanic("called Option::unwrap() on a None value", chars, pos)
    ELSE LexOk(chars, pos, Unwrap(from_u32(from_str_radix(hex))))

\* The "for _ in 0..4" loop of a \u escape; hex holds the digits read so far.
RECURSIVE unicode_escape(_, _, _)
unicode_escape(chars, pos, hex) ==
    IF Len(hex) = 4 THEN HexToChar(chars, pos, hex)
    ELSE IF IsNone(Peek(chars))
    THEN LexPanic("Found EOF when trying to convert escape sequence.", Advance(chars), pos)
    ELSE IF ~IsHexDigit(Unwrap(Peek(chars)))
    THEN LexPanic("Invalid character for unicode codepoint", Advance(chars), pos)
    ELSE unicode_escape(Advance(chars), AddColumn(pos, 3), Append(hex, Unwrap(Peek(chars))))

\* ConvertEscape with a character that names no escape standing for itself.
ConvertEscapeLenient(ch, chars, pos) ==
    IF ch = Ord["u"] THEN unicode_escape(chars, pos, <<>>) ELSE LexOk(chars, pos, ch)

\* The match of try_convert_escape_sequence on the character ch after the
\* backslash; chars is the cursor after ch.
ConvertEscape(ch, chars, pos) ==
    CASE ch \in {Ord["\""], Ord["\\"], Ord["/"]} -> LexOk(chars, pos, ch)
      [] ch = Ord["b"] -> LexOk(chars, pos, 8)
      [] ch = Ord["f"] -> LexOk(chars, pos, 12)
      [] ch = Ord["n"] -> LexOk(chars, pos, Ord["\n"])
      [] ch = Ord["r"] -> LexOk(chars, pos, Ord["\r"])
      [] ch = Ord["t"] -> LexOk(chars, pos, Ord["\t"])
      [] ch = Ord["u"] -> unicode_escape(chars, pos, <<>>)
      [] OTHER -> LexPanic("Invalid escape sequence", chars, pos)

try_convert_escape_sequence(chars, pos) ==
    IF IsNone(Peek(chars))
    THEN LexPanic("Found EOF when trying to parse escape sequence.", Advance(chars), pos)
    ELSE LexBind(ConvertEscape(Unwrap(Peek(chars)), Advance(chars), pos),
                 LAMBDA converted :
                    LexOk(converted.chars, AddColumn(converted.pos, 1), converted.out))

\* The loop of try_get_string; result holds the literal built so far.
RECURSIVE try_get_string_loop(_, _, _, _, _)
try_get_string_loop(chars, pos, result, line_no, col_no) ==
    IF IsNone(Peek(chars))
    THEN LexPanic("Found EOF when trying to parse string.", chars, pos)
    ELSE
        LET ch == Unwrap(Peek(chars))
        IN  CASE ch = Ord["\n"] ->
                    LexPanic("Found newline when trying to parse string.", chars, pos)
              [] ch = Ord["\\"] ->
                    LexBind(try_convert_escape_sequence(Advance(chars), AddColumn(pos, 1)),
                            LAMBDA esc :
                                try_get_string_loop(esc.chars, esc.pos,
                                                    Append(result, esc.out), line_no, col_no))
              [] ch = Ord["\""] ->
                    LexOk(Advance(chars), pos,
                          Token("String", Append(result, ch), line_no, col_no))
              [] OTHER ->
                    try_get_string_loop(Advance(chars), AddColumn(pos, 1),
                                        Append(result, ch), line_no, col_no)

try_get_string(chars, pos) ==
    IF IsNone(Peek(chars))
    THEN LexPanic("called Option::unwrap() on a None value", chars, pos)
    ELSE try_get_string_loop(Advance(chars), pos, <<Unwrap(Peek(chars))>>,
                             pos.line, pos.column)

\* The digit loop of try_grab_integer.
RECURSIVE try_grab_integer_loop(_, _, _)
try_grab_integer_loop(chars, pos, result) ==
    IF IsSome(Peek(chars)) /\ IsDigit(Unwrap(Peek(chars)))
    THEN try_grab_integer_loop(Advance(chars), pos, Append(result, Unwrap(Peek(chars))))
    ELSE LexOk(chars, pos, result)

\* The check of try_grab_integer after a minus sign: the digit that follows is
\* pushed and left in the cursor.
AfterMinus(first, chars, pos) ==
    IF IsNone(Peek(chars))
    THEN LexPanic("Encountered an EOF when trying to parse number.", chars, pos)
    ELSE IF ~IsDigit(Unwrap(Peek(chars)))
    THEN LexPanic("Found non-digit after minus sign when trying to parse number.", chars, pos)
    ELSE LexOk(chars, pos, <<first, Unwrap(Peek(chars))>>)

try_grab_integer(chars, pos) ==
    IF IsNone(Peek(chars))
    THEN LexPanic("called Option::unwrap() on a None value", Advance(chars), pos)
    ELSE LexBind(IF Unwrap(Peek(chars)) = Ord["-"]
                 THEN AfterMinus(Unwrap(Peek(chars)), Advance(chars), pos)
                 ELSE LexOk(Advance(chars), pos, <<Unwrap(Peek(chars))>>),
                 LAMBDA start : try_grab_integer_loop(start.chars, start.pos, start.out))

\* try_grab_exponent after its chars.next(): chars is the cursor after the e or E.
AfterExponentMark(chars, pos) ==
    IF IsNone(Peek(chars))
    THEN LexPanic("Encountered EOF when trying to parse exponent of number.", chars, pos)
    ELSE IF IsDigit(Unwrap(Peek(chars))) \/ Unwrap(Peek(chars)) = Ord["-"]
    THEN LexBind(try_grab_integer(chars, pos),
                 LAMBDA int : LexOk(int.chars, int.pos, <<Ord["e"]>> \o int.out))
    ELSE LexPanic("Found non-digit after minus sign when trying to parse exponent.",
                  chars, pos)

try_grab_exponent(chars, pos) == AfterExponentMark(Advance(chars), pos)

\* result.push_str(try_grab_exponent(chars, pos)).
PushExponent(chars, pos, result) ==
    LexBind(try_grab_exponent(chars, pos),
            LAMBDA exp : LexOk(exp.chars, exp.pos, result \o exp.out))

\* The exponent part after the decimal part of try_get_number: pushed when the
\* lookahead is e or E.
OptionalExponent(chars, pos, result) ==
    IF IsSome(Peek(chars)) /\ Unwrap(Peek(chars)) \in {Ord["e"], Ord["E"]}
    THEN PushExponent(chars, pos, result)
    ELSE LexOk(chars, pos, result)

\* The token a production returns once its literal is complete.
LiteralToken(tok_type, r) ==
    LexOk(r.chars, r.pos, Token(tok_type, r.out, r.pos.line, r.pos.column))

\* The arm of try_get_number for a decimal point: chars is the cursor after the
\* point, result the literal with the point pushed.
DecimalPart(chars, pos, result) ==
    IF IsNone(Peek(chars))
    THEN LexPanic("Encountered EOF when trying to parse decimal part of a number.",
                  chars, pos)
    ELSE IF ~IsDigit(Unwrap(Peek(chars)))
    THEN LexPanic("Found non-digit after decimal point when trying to parse exponent.",
                  chars, pos)
    ELSE LexBind(LexBind(try_grab_integer(chars, pos),
                         LAMBDA frac :
                            OptionalExponent(frac.chars, frac.pos, result \o frac.out)),
                 LAMBDA full : LiteralToken("Float", full))

\* try_get_number after the integer body int.
AfterIntegerBody(int) ==
    IF IsNone(Peek(int.chars)) THEN LiteralToken("Int", int)
    ELSE IF Unwrap(Peek(int.chars)) \in {Ord["e"], Ord["E"]}
    THEN LexBind(PushExponent(int.chars, int.pos, int.out),
                 LAMBDA full : LiteralToken("Int", full))
    ELSE IF Unwrap(Peek(int.chars)) = Ord["."]
    THEN DecimalPart(Advance(int.chars), int.pos, Append(int.out, Unwrap(Peek(int.chars))))
    ELSE LiteralToken("Int", int)

try_get_number(chars, pos) == LexBind(try_grab_integer(chars, pos), AfterIntegerBody)

\* The loop of try_get_name.
RECURSIVE try_get_name_loop(_, _, _)
try_get_name_loop(chars, pos, result) ==
    IF IsSome(Peek(chars)) /\ IsNameChar(Unwrap(Peek(chars)))
    THEN try_get_name_loop(Advance(chars), AddColumn(pos, 1),
                           Append(result, Unwrap(Peek(chars))))
    ELSE LexOk(chars, pos, Token("Name", result, pos.line, pos.column))

try_get_name(chars, pos) ==
    IF IsNone(Peek(chars))
    THEN LexPanic("called Option::unwrap() on a None value", chars, pos)
    ELSE try_get_name_loop(Advance(chars), pos, <<Unwrap(Peek(chars))>>)

\* The characters of the punctuation arm of tokenise.
Punctuation == {Ord["{"], Ord["}"], Ord["["], Ord["]"], Ord[","], Ord[":"]}

\* The inner match of the punctuation arm.
PunctuationType(ch) ==
    CASE ch = Ord["{"] -> "LBrace"
      [] ch = Ord["}"] -> "RBrace"
      [] ch = Ord["["] -> "LSqBrac"
      [] ch = Ord["]"] -> "RSqBrac"
      [] ch = Ord[","] -> "Comma"
      [] ch = Ord[":"] -> "Colon"
      [] OTHER -> "todo"

(***************************************************************************)
(* The numeric conversions parse_simple calls (str::parse::<i64> and       *)
(* str::parse::<f64>).  A Result is modelled like an Option: None for Err. *)
(* An i64 is its sign and its decimal digits without leading zeros (the    *)
(* model checker's integers are narrower than 64 bits); an f64 is the      *)
(* decimal number the literal denotes, sign, digits and power of ten,      *)
(* without the rounding to binary64.                                       *)
(***************************************************************************)

\* The number of digits of s from index i on, up to the first non-digit.
RECURSIVE CountDigits(_, _)
CountDigits(s, i) ==
    IF i <= Len(s) /\ IsDigit(s[i]) THEN 1 + CountDigits(s, i + 1) ELSE 0

\* The values of a string of digits.
DigitValues(s) == [i \in 1..Len(s) |-> s[i] - Ord["0"]]

RECURSIVE StripLeadingZeros(_)
StripLeadingZeros(d) ==
    IF Len(d) > 0 /\ d[1] = 0 THEN StripLeadingZeros(Tail(d)) ELSE d

RECURSIVE StripTrailingZeros(_)
StripTrailingZeros(d) ==
    IF Len(d) > 0 /\ d[Len(d)] = 0
    THEN StripTrailingZeros(SubSeq(d, 1, Len(d) - 1)) ELSE d

\* a <= b for two strings of digits of the same length.
RECURSIVE DigitsLeq(_, _)
DigitsLeq(a, b) ==
    IF Len(a) = 0 THEN TRUE
    ELSE IF a[1] # b[1] THEN a[1] < b[1]
    ELSE DigitsLeq(Tail(a), Tail(b))

\* The digits of i64::MAX, 9223372036854775807.
I64MaxDigits == <<9, 2, 2, 3, 3, 7, 2, 0, 3, 6, 8, 5, 4, 7, 7, 5, 8, 0, 7>>

\* The digits of the magnitude of i64::MIN, 9223372036854775808.
I64MinDigits == <<9, 2, 2, 3, 3, 7, 2, 0, 3, 6, 8, 5, 4, 7, 7, 5, 8, 0, 8>>

\* Whether a magnitude (digits without leading zeros) fits an i64 of that sign.
FitsI64(neg, mag) ==
    \/ Len(mag) < Len(I64MaxDigits)
    \/ Len(mag) = Len(I64MaxDigits)
        /\ DigitsLeq(mag, IF neg THEN I64MinDigits ELSE I64MaxDigits)

\* The digits after the sign of an i64.
IntegerBody(neg, body) ==
    IF Len(body) = 0 \/ CountDigits(body, 1) # Len(body) THEN None
    ELSE IF ~FitsI64(neg, StripLeadingZeros(DigitValues(body))) THEN None
    ELSE Some([neg |-> neg /\ Len(StripLeadingZeros(DigitValues(body))) > 0,
               mag |-> StripLeadingZeros(DigitValues(body))])

\* str::parse::<i64>: an optional sign, then one or more digits and nothing else,
\* within the range of an i64.
ParseI64(lit) ==
    IF Len(lit) > 0 /\ lit[1] \in {Ord["-"], Ord["+"]}
    THEN IntegerBody(lit[1] = Ord["-"], Tail(lit))
    ELSE IntegerBody(FALSE, lit)

\* The value of a short string of digits.
RECURSIVE DecimalValue(_)
DecimalValue(d) ==
    IF Len(d) = 0 THEN 0
    ELSE 10 * DecimalValue(SubSeq(d, 1, Len(d) - 1)) + d[Len(d)]

\* ASCII lower case, as the case-insensitive matches of the float parser need it.
ToLower(s) == [i \in 1..Len(s) |-> IF InRange(s[i], "A", "Z") THEN s[i] + 32 ELSE s[i]]

\* The decimal number with digits int.frac and power of ten exp.
Decimal(neg, int, frac, exp) ==
    LET lead == StripLeadingZeros(int \o frac)
    IN  IF Len(lead) = 0 THEN [neg |-> neg, digits |-> <<>>, exp |-> 0]
        ELSE [neg |-> neg, digits |-> StripTrailingZeros(lead),
              exp |-> exp - Len(frac) + (Len(lead) - Len(StripTrailingZeros(lead)))]

\* Whether s has one of the characters of set at index i.
HasAt(s, i, set) == i <= Len(s) /\ s[i] \in set

\* The digits of s from index i on, up to the first non-digit.
DigitsAt(s, i) == DigitValues(SubSeq(s, i, i + CountDigits(s, i) - 1))

\* The exponent of a float: s from index i on is e or E, an optional sign and
\* one or more digits, to the end of s.  None when it is not.
FloatExponent(s, i) ==
    IF ~HasAt(s, i, {Ord["e"], Ord["E"]}) THEN None
    ELSE IF HasAt(s, i + 1, {Ord["-"], Ord["+"]})
    THEN IF CountDigits(s, i + 2) = 0 \/ i + 2 + CountDigits(s, i + 2) # Len(s) + 1 THEN None
         ELSE IF s[i + 1] = Ord["-"] THEN Some(0 - DecimalValue(DigitsAt(s, i + 2)))
         ELSE Some(DecimalValue(DigitsAt(s, i + 2)))
    ELSE IF CountDigits(s, i + 1) = 0 \/ i + 1 + CountDigits(s, i + 1) # Len(s) + 1 THEN None
         ELSE Some(DecimalValue(DigitsAt(s, i + 1)))

\* A float whose digits are int.frac, with what follows them in s from index i on:
\* nothing, or an exponent.
FloatFrom(neg, s, int, frac, i) ==
    IF Len(int) + Len(frac) = 0 THEN None
    ELSE IF i = Len(s) + 1 THEN Some(Decimal(neg, int, frac, 0))
    ELSE IF IsNone(FloatExponent(s, i)) THEN None
    ELSE Some(Decimal(neg, int, frac, Unwrap(FloatExponent(s, i))))

\* The number after the sign: digits, an optional point and digits, an optional
\* exponent; or inf, infinity, nan in any case.
FloatBody(neg, s) ==
    IF ToLower(s) \in {Str(<<"i", "n", "f">>), Str(<<"i", "n", "f", "i", "n", "i", "t", "y">>)}
    THEN Some([neg |-> neg, special |-> "inf"])
    ELSE IF ToLower(s) = Str(<<"n", "a", "n">>)
    THEN Some([neg |-> neg, special |-> "nan"])
    ELSE IF HasAt(s, CountDigits(s, 1) + 1, {Ord["."]})
    THEN FloatFrom(neg, s, DigitsAt(s, 1), DigitsAt(s, CountDigits(s, 1) + 2),
                   CountDigits(s, 1) + 2 + CountDigits(s, CountDigits(s, 1) + 2))
    ELSE FloatFrom(neg, s, DigitsAt(s, 1), <<>>, CountDigits(s, 1) + 1)

\* str::parse::<f64>: an optional sign, then the number.
ParseF64(lit) ==
    IF HasAt(lit, 1, {Ord["-"], Ord["+"]}) THEN FloatBody(lit[1] = Ord["-"], Tail(lit))
    ELSE FloatBody(FALSE, lit)

(***************************************************************************)
(* Nodes (src/parser.rs).  An Object's HashMap is a function from its keys *)
(* to their nodes.                                                         *)
(***************************************************************************)

NodeInteger(n) == [type |-> "Integer", int |-> n]

NodeString(v) == [type |-> "String", str |-> v]

NodeFloat(f) == [type |-> "Float", float |-> f]

NodeBool(b) == [type |-> "Bool", bool |-> b]

NodeNull == [type |-> "Null"]

NodeArray(body) == [type |-> "Array", items |-> body]

NodeObject(body) == [type |-> "Object", map |-> body]

NodeEmpty == [type |-> "Empty"]

\* HashMap::new().
HashMapNew == [k \in {} |-> NodeNull]

\* HashMap::insert: the value of an existing key is replaced.
HashMapInsert(map, name, value) ==
    [k \in DOMAIN map \cup {name} |-> IF k = name THEN value ELSE map[k]]

(***************************************************************************)
(* The parser (src/parser.rs).  Each function takes the token cursor and   *)
(* returns it as the call leaves it, with the node built; "panic" is as    *)
(* in the tokeniser.                                                       *)
(***************************************************************************)

ParseOk(tokens, node) == [panic |-> "", tokens |-> tokens, node |-> node]

ParsePanic(msg, tokens) == [panic |-> msg, tokens |-> tokens, node |-> NodeEmpty]

\* A call that panicked ends its caller too; one that returned is continued by Then.
ParseBind(r, Then(_)) == IF r.panic # "" THEN ParsePanic(r.panic, r.tokens) ELSE Then(r)

\* The token types parse_simple accepts.
SimpleTypes == {"Int", "String", "Float", "Name"}

\* The literals of the three names.
TrueName == Str(<<"t", "r", "u", "e">>)

FalseName == Str(<<"f", "a", "l", "s", "e">>)

NullName == Str(<<"n", "u", "l", "l">>)

\* Ok(x) => Node::Integer(x), Err(_) => panic.
IntegerNode(n, tokens) ==
    IF IsNone(n) THEN ParsePanic("Failed to parse integer token's internal value", tokens)
    ELSE ParseOk(tokens, NodeInteger(Unwrap(n)))

\* Ok(x) => Node::Float(x), Err(_) => panic.
FloatNode(f, tokens) ==
    IF IsNone(f) THEN ParsePanic("Failed to parse float token's internal value", tokens)
    ELSE ParseOk(tokens, NodeFloat(Unwrap(f)))

\* parse_simple with every Name that is not true or false taken for null.
ParseSimpleAnyName(token, tokens) ==
    CASE token.tok_type = "Int" -> IntegerNode(ParseI64(token.value), tokens)
      [] token.tok_type = "Float" -> FloatNode(ParseF64(token.value), tokens)
      [] token.tok_type = "String" -> ParseOk(tokens, NodeString(token.value))
      [] token.tok_type = "Name" ->
            IF token.value \in {TrueName, FalseName}
            THEN ParseOk(tokens, NodeBool(token.value = TrueName))
            ELSE ParseOk(tokens, NodeNull)
      [] OTHER -> ParsePanic("Cannot parse token with invalid type", tokens)

\* parse_simple takes no cursor: with it, the result is that of the caller's
\* cursor, which the call leaves as it is.
parse_simple(token, tokens) ==
    CASE token.tok_type = "Int" -> IntegerNode(ParseI64(token.value), tokens)
      [] token.tok_type = "Float" -> FloatNode(ParseF64(token.value), tokens)
      [] token.tok_type = "String" -> ParseOk(tokens, NodeString(token.value))
      [] token.tok_type = "Name" ->
            CASE token.value = TrueName -> ParseOk(tokens, NodeBool(TRUE))
              [] token.value = FalseName -> ParseOk(tokens, NodeBool(FALSE))
              [] token.value = NullName -> ParseOk(tokens, NodeNull)
              [] OTHER -> ParsePanic("Failed to parse undefined name", tokens)
      [] OTHER -> ParsePanic("Cannot parse token with invalid type", tokens)

RECURSIVE parse_array(_), parse_array_loop(_, _), parse_pair(_), parse_object(_),
          parse_object_loop(_, _), ParseValue(_, _)

\* The match on the lookahead token that parse_array and parse_pair share: a
\* container is parsed from the cursor, a simple token is taken from it
\* (parse_simple(tokens.next().unwrap())), any other token is the panic msg.
ParseValue(tokens, msg) ==
    CASE Unwrap(Peek(tokens)).tok_type = "LSqBrac" -> parse_array(tokens)
      [] Unwrap(Peek(tokens)).tok_type = "LBrace" -> parse_object(tokens)
      [] Unwrap(Peek(tokens)).tok_type \in SimpleTypes ->
            parse_simple(Unwrap(Peek(tokens)), Advance(tokens))
      [] OTHER -> ParsePanic(msg, tokens)

parse_array(tokens) ==
    IF IsNone(Peek(tokens))
    THEN ParsePanic("called Option::unwrap() on a None value", tokens)
    ELSE parse_array_loop(Advance(tokens), <<>>)

\* parse_array after an item was pushed: a comma continues the loop, the closing
\* bracket is taken and ends it.
AfterArrayItem(tokens, body) ==
    IF IsNone(Peek(tokens))
    THEN ParsePanic("Encountered an EOF while trying to build array.", tokens)
    ELSE CASE Unwrap(Peek(tokens)).tok_type = "Comma" ->
                parse_array_loop(Advance(tokens), body)
           [] Unwrap(Peek(tokens)).tok_type = "RSqBrac" ->
                ParseOk(Advance(tokens), NodeArray(body))
           [] OTHER -> ParsePanic("Unrecognised token after parsing array item", tokens)

\* The loop of parse_array; body holds the nodes pushed so far.
parse_array_loop(tokens, body) ==
    IF IsNone(Peek(tokens))
    THEN ParsePanic("Encountered an EOF while trying to build array.", tokens)
    ELSE IF Unwrap(Peek(tokens)).tok_type = "RSqBrac"
    THEN ParseOk(tokens, NodeArray(body))
    ELSE ParseBind(ParseValue(tokens, "Invalid token for an array"),
                   LAMBDA item : AfterArrayItem(item.tokens, Append(body, item.node)))

\* parse_pair after the key: the colon, then the value.  tokens is the cursor
\* after the key.
AfterKey(name, tokens) ==
    IF IsNone(Peek(tokens))
    THEN ParsePanic("Encountered an EOF while trying to build object property.",
                    Advance(tokens))
    ELSE IF Unwrap(Peek(tokens)).tok_type # "Colon"
    THEN ParsePanic("Expected a colon", Advance(tokens))
    ELSE IF IsNone(Peek(Advance(tokens)))
    THEN ParsePanic("Encountered an EOF while trying to build object property.",
                    Advance(tokens))
    ELSE ParseBind(ParseValue(Advance(tokens), "Invalid token for an object property"),
                   LAMBDA value : [panic |-> "", tokens |-> value.tokens,
                                   node |-> value.node, name |-> name])

\* parse_pair returns (name, value): the result carries the name as well.  Its
\* second parameter, start, is read by its panic messages only.
parse_pair(tokens) ==
    IF IsNone(Peek(tokens))
    THEN ParsePanic("Encountered an EOF while trying to build object property.",
                    Advance(tokens))
    ELSE IF Unwrap(Peek(tokens)).tok_type # "String"
    THEN ParsePanic("Expected a property name (string)", Advance(tokens))
    ELSE AfterKey(Unwrap(Peek(tokens)).value, Advance(tokens))

\* let (name, value) = parse_pair(tokens, start); body.insert(name, value); then
\* the loop.
InsertPair(tokens, body) ==
    ParseBind(parse_pair(tokens),
              LAMBDA pair :
                parse_object_loop(pair.tokens, HashMapInsert(body, pair.name, pair.node)))

\* AfterLBrace with the end of the tokens taken for the end of the object.
AfterLBraceEndsAtEof(tokens) ==
    IF IsNone(Peek(tokens)) \/ Unwrap(Peek(tokens)).tok_type = "RBrace"
    THEN ParseOk(tokens, NodeObject(HashMapNew))
    ELSE InsertPair(tokens, HashMapNew)

\* parse_object after the opening brace was taken.
AfterLBrace(tokens) ==
    IF IsNone(Peek(tokens))
    THEN ParsePanic("Encountered an EOF when trying to parse object.", tokens)
    ELSE IF Unwrap(Peek(tokens)).tok_type = "RBrace"
    THEN ParseOk(tokens, NodeObject(HashMapNew))
    ELSE InsertPair(tokens, HashMapNew)

parse_object(tokens) ==
    IF IsNone(Peek(tokens))
    THEN ParsePanic("called Option::unwrap() on a None value", tokens)
    ELSE AfterLBrace(Advance(tokens))

\* The loop of parse_object; body holds the pairs inserted so far.
parse_object_loop(tokens, body) ==
    IF IsNone(Peek(tokens))
    THEN ParsePanic("Encountered an EOF when trying to parse object pair.", Advance(tokens))
    ELSE CASE Unwrap(Peek(tokens)).tok_type = "RBrace" ->
                ParseOk(Advance(tokens), NodeObject(body))
           [] Unwrap(Peek(tokens)).tok_type = "Comma" -> InsertPair(Advance(tokens), body)
           [] OTHER ->
                ParsePanic("Encountered invalid token when trying to parse object.",
                           Advance(tokens))

\* CheckConsumed without its check: parse returns the root whatever is left.
CheckConsumedSkipped(out) == out

\* The check that ends parse: tokens left over are a panic.
CheckConsumed(out) ==
    IF IsSome(Peek(out.tokens))
    THEN ParsePanic("Tokens iterator was not entirely consumed!", out.tokens)
    ELSE out

\* The match of parse on the first token: a simple token is parsed where it is,
\* in the lookahead.
ParseRoot(first, tokens) ==
    CASE first.tok_type \in SimpleTypes -> parse_simple(first, tokens)
      [] first.tok_type = "LBrace" -> parse_object(tokens)
      [] first.tok_type = "LSqBrac" -> parse_array(tokens)
      [] OTHER -> ParsePanic("Invalid starting token", tokens)

\* parse without the early return on an empty token list: the first token is
\* unwrapped.
ParseUnwrapsFirst(token_vec) ==
    IF IsNone(Peek(IterNew(token_vec)))
    THEN ParsePanic("called Option::unwrap() on a None value", IterNew(token_vec))
    ELSE ParseBind(ParseRoot(Unwrap(Peek(IterNew(token_vec))), IterNew(token_vec)),
                   CheckConsumed)

parse(token_vec) ==
    IF IsNone(Peek(IterNew(token_vec))) THEN ParseOk(IterNew(token_vec), NodeEmpty)
    ELSE ParseBind(ParseRoot(Unwrap(Peek(IterNew(token_vec))), IterNew(token_vec)),
                   CheckConsumed)

(***************************************************************************)
(* The input texts.  A document is written from a bounded grammar and      *)
(* serialised; the other families are texts put together from characters   *)
(* or from short pieces of source, well-formed or not.                     *)
(***************************************************************************)

\* The nodes (leaves and containers) of the largest document.
MaxDocSize == 3

\* The characters of the longest text of the number family.
MaxNumberLen == 5

\* The items of the longest body of the string family.
MaxStringItems == 2

\* The pieces of the longest text of the piece family.
MaxPieces == 4

\* The characters of the longest text of the whitespace family.
MaxWhitespace == 3

\* All sequences over S of length lo..hi.
SeqsOf(S, lo, hi) == UNION {[1..n -> S] : n \in lo..hi}

\* The concatenation of a sequence of texts.
RECURSIVE Flatten(_)
Flatten(ss) == IF Len(ss) = 0 THEN <<>> ELSE Head(ss) \o Flatten(Tail(ss))

\* ss joined by the character sep.
RECURSIVE Join(_, _)
Join(ss, sep) ==
    IF Len(ss) = 0 THEN <<>>
    ELSE IF Len(ss) = 1 THEN ss[1]
    ELSE ss[1] \o <<sep>> \o Join(Tail(ss), sep)

DocSimple(kind, src) == [kind |-> kind, src |-> src]

DocArray(items) == [kind |-> "Array", elems |-> items]

DocObject(pairs) == [kind |-> "Object", pairs |-> pairs]

\* The marker of a text that was not written from a document.
NoDoc == [kind |-> "None"]

\* The simple values that occur at any depth; a String's src is its content.
Leaves ==
    {DocSimple("Integer", Str(<<"1">>)), DocSimple("Integer", Str(<<"2">>)),
     DocSimple("String", Str(<<"a">>)), DocSimple("Bool", Str(<<"t", "r", "u", "e">>))}

\* The simple values that occur as the whole document only.
RootLeaves ==
    {DocSimple("Float", Str(<<"1", ".", "5">>)), DocSimple("Null", Str(<<"n", "u", "l", "l">>)),
     DocSimple("Bool", Str(<<"f", "a", "l", "s", "e">>)), DocSimple("String", <<>>)}

\* The keys of the objects.
Keys == {Str(<<"a">>), Str(<<"b">>)}

RECURSIVE DocsOfSize(_), ItemsOfSize(_), PairsOfSize(_)

\* The documents of exactly n nodes.
DocsOfSize(n) ==
    IF n = 1 THEN Leaves \cup {DocArray(<<>>), DocObject(<<>>)}
    ELSE {DocArray(items) : items \in ItemsOfSize(n - 1)}
         \cup {DocObject(pairs) : pairs \in PairsOfSize(n - 1)}

\* The sequences of documents of n nodes in all.
ItemsOfSize(n) ==
    IF n = 0 THEN {<<>>}
    ELSE UNION {{<<d>> \o rest : d \in DocsOfSize(k), rest \in ItemsOfSize(n - k)} :
                k \in 1..n}

\* The sequences of pairs whose values have n nodes in all.
PairsOfSize(n) ==
    IF n = 0 THEN {<<>>}
    ELSE UNION {{<<<<key, d>>>> \o rest :
                    key \in Keys, d \in DocsOfSize(k), rest \in PairsOfSize(n - k)} :
                k \in 1..n}

Docs == RootLeaves \cup UNION {DocsOfSize(n) : n \in 1..MaxDocSize}

\* The text of a document, without whitespace.
RECURSIVE Serialise(_)
Serialise(d) ==
    CASE d.kind = "Array" ->
            <<Ord["["]>> \o Join([i \in 1..Len(d.elems) |-> Serialise(d.elems[i])], Ord[","])
            \o <<Ord["]"]>>
      [] d.kind = "Object" ->
            <<Ord["{"]>>
            \o Join([i \in 1..Len(d.pairs) |->
                        <<Ord["\""]>> \o d.pairs[i][1] \o <<Ord["\""], Ord[":"]>>
                        \o Serialise(d.pairs[i][2])], Ord[","])
            \o <<Ord["}"]>>
      [] d.kind = "String" -> <<Ord["\""]>> \o d.src \o <<Ord["\""]>>
      [] OTHER -> d.src

\* The characters of the number family.
NumberChars == {Ord["-"], Ord["1"], Ord["2"], Ord["."], Ord["e"], Ord["E"]}

NumberTexts == SeqsOf(NumberChars, 1, MaxNumberLen)

\* The items of a string literal's body that denote a character: the source of
\* each (a plain character or an escape) and the character it denotes.
GoodItems ==
    {[src |-> Str(<<"a">>), char |-> Str(<<"a">>)],
     [src |-> Str(<<"b">>), char |-> Str(<<"b">>)],
     [src |-> Str(<<"\\", "n">>), char |-> Str(<<"\n">>)],
     [src |-> Str(<<"\\", "\"">>), char |-> Str(<<"\"">>)],
     [src |-> Str(<<"\\", "\\">>), char |-> Str(<<"\\">>)],
     [src |-> Str(<<"\\", "u", "0", "0", "e", "9">>), char |-> <<233>>],
     [src |-> Str(<<"\\", "u", "0", "0", "4", "A">>), char |-> Str(<<"J">>)]}

\* The items that make the literal ill-formed, or end it early: an escape that
\* is none, a backslash alone, a raw newline, a quote, \u with a surrogate, with
\* a character that is no hex digit, with two digits only.
BadItems ==
    {[src |-> Str(<<"\\", "x">>)], [src |-> Str(<<"\\">>)], [src |-> Str(<<"\n">>)],
     [src |-> Str(<<"\"">>)], [src |-> Str(<<"\\", "u", "d", "8", "0", "0">>)],
     [src |-> Str(<<"\\", "u", "0", "g">>)], [src |-> Str(<<"\\", "u", "0", "0">>)]}

\* The text of a string literal with the body items: the quotes around the
\* sources of the items.
Literal(items) ==
    <<Ord["\""]>> \o Flatten([i \in 1..Len(items) |-> items[i].src]) \o <<Ord["\""]>>

\* The string a literal of good items denotes.
Decoded(items) == DocSimple("String", Flatten([i \in 1..Len(items) |-> items[i].char]))

\* The bodies of the well-formed literals; the last is longer than the bound
\* allows the others to be.
GoodBodies ==
    SeqsOf(GoodItems, 0, MaxStringItems)
    \cup {<<[src |-> Str(<<"a">>), char |-> Str(<<"a">>)],
            [src |-> Str(<<"\\", "n">>), char |-> Str(<<"\n">>)],
            [src |-> Str(<<"b">>), char |-> Str(<<"b">>)]>>}

\* An opening quote, then items of which one at least is bad, closed or not; and
\* the well-formed literals left unclosed.
StringTexts ==
    {SubSeq(Literal(items), 1, Len(Literal(items)) - open) :
        items \in SeqsOf(GoodItems \cup BadItems, 1, MaxStringItems)
                  \ SeqsOf(GoodItems, 1, MaxStringItems),
        open \in {0, 1}}
    \cup {SubSeq(Literal(items), 1, Len(Literal(items)) - 1) : items \in GoodBodies}

\* The pieces of the piece family: the source of one token each.
Pieces ==
    {Str(<<"[">>), Str(<<"]">>), Str(<<"{">>), Str(<<"}">>), Str(<<",">>), Str(<<":">>),
     Str(<<"1">>), Str(<<"\"", "a", "\"">>), Str(<<"x">>), Str(<<"?">>)}

PieceTexts == {Flatten(ps) : ps \in SeqsOf(Pieces, 0, MaxPieces)}

\* The characters tokenise skips.
WhitespaceChars == {Ord[" "], Ord["\t"], Ord["\r"], Ord["\n"]}

WhitespaceTexts == SeqsOf(WhitespaceChars, 0, MaxWhitespace)

\* Whitespace around and inside a text, and texts the families above leave out.
MixedTexts ==
    {Str(<<" ", "[", "\n", "1", " ", ",", "\t", "n", "u", "l", "l", "]", "\n">>),
     Str(<<"\n", "a">>), Str(<<"\n", "1">>), Str(<<"\n", "\"", "a", "\"">>),
     Str(<<"{", "\n", " ", "\"", "a", "\"", ":", " ", "t", "r", "u", "e", "\n", "}">>),
     Str(<<"N", "u", "l", "l">>), Str(<<"T", "r", "u", "e">>), Str(<<"_", "x", "1">>),
     Str(<<"[", "[", "1", ",", "]">>), Str(<<"{", "\"", "a", "\"", ":", "{", "}">>),
     Str(<<"{", "\"", "a", "\"", ":", "1", ",", "}">>)}

RawTexts == NumberTexts \cup StringTexts \cup PieceTexts \cup WhitespaceTexts \cup MixedTexts

(***************************************************************************)
(* The pipeline of src/main.rs: tokenise(input), then parse(&tokens).      *)
(***************************************************************************)

VARIABLES
    text,        \* the input of tokenise
    doc,         \* the document the input was written from, or NoDoc
    chars,       \* tokenise: the character cursor
    pos,         \* tokenise: the position
    tokens,      \* tokenise: the tokens pushed so far; then the argument of parse
    token_iter,  \* parse: the token cursor, as parse leaves it
    result,      \* what parse returned: None until it has, then Some(node)
    panic,       \* the message of the panic that aborted the process, or ""
    pc,          \* where main is: in "tokenise", in "parse", or "done"
    input,       \* a cursor on its own: the items it was made over
    cursor,      \* the cursor
    calls,       \* the number of calls of next() on it so far
    last,        \* the last call on it and what the call returned
    taken        \* the items its next() returned so far, in order

\* The variables of the pipeline, and those of the cursor on its own.
main_vars == <<text, doc, chars, pos, tokens, token_iter, result, panic, pc>>

cursor_vars == <<input, cursor, calls, last, taken>>

vars == <<main_vars, cursor_vars>>

\* A cursor made over the items s, no call on it yet.
CursorOver(s) ==
    /\ input = s
    /\ cursor = IterNew(s)
    /\ calls = 0
    /\ last = [op |-> "new", out |-> None]
    /\ taken = <<>>

\* tokenise has set up its cursor, its token list and its position.
EnterTokenise(t, d) ==
    /\ text = t
    /\ doc = d
    /\ chars = IterNew(t)
    /\ pos = StartPos
    /\ tokens = <<>>
    /\ token_iter = IterNew(<<>>)
    /\ result = None
    /\ panic = ""
    /\ pc = "tokenise"

\* main starts on the text t; no cursor is used on its own.
StartOn(t, d) == EnterTokenise(t, d) /\ CursorOver(<<>>)

Init ==
    \/ \E d \in Docs : StartOn(Serialise(d), d)
    \/ \E items \in GoodBodies : StartOn(Literal(items), Decoded(items))
    \/ \E t \in RawTexts : StartOn(t, NoDoc)

\* tokenise is at the top of its loop and the cursor has a character.
Lookahead == pc = "tokenise" /\ panic = "" /\ IsSome(Peek(chars))

\* The character tokenise peeked (ch).
Peeked == Unwrap(Peek(chars))

\* A production returned a token, which is pushed, or panicked.
Produce(r) ==
    /\ chars' = r.chars
    /\ pos' = r.pos
    /\ panic' = r.panic
    /\ tokens' = IF r.panic = "" THEN Append(tokens, r.out) ELSE tokens
    /\ UNCHANGED <<text, doc, token_iter, result, pc>>
    /\ UNCHANGED cursor_vars

\* The arm for a newline with its chars.next() left out.
TokeniseNewlineKeepsChar ==
    /\ Lookahead
    /\ Peeked = Ord["\n"]
    /\ pos' = [line |-> pos.line + 1, column |-> 0]
    /\ UNCHANGED <<text, doc, chars, tokens, token_iter, result, panic, pc>>
    /\ UNCHANGED cursor_vars

\* The arm for a newline.
TokeniseNewline ==
    /\ Lookahead
    /\ Peeked = Ord["\n"]
    /\ chars' = Advance(chars)
    /\ pos' = [line |-> pos.line + 1, column |-> 0]
    /\ UNCHANGED <<text, doc, tokens, token_iter, result, panic, pc>>
    /\ UNCHANGED cursor_vars

\* The arm for the other whitespace.
TokeniseWhitespace ==
    /\ Lookahead
    /\ Peeked \in {Ord[" "], Ord["\t"], Ord["\r"]}
    /\ chars' = Advance(chars)
    /\ pos' = AddColumn(pos, 1)
    /\ UNCHANGED <<text, doc, tokens, token_iter, result, panic, pc>>
    /\ UNCHANGED cursor_vars

TokeniseString ==
    /\ Lookahead
    /\ Peeked = Ord["\""]
    /\ Produce(try_get_string(chars, pos))

TokeniseNumber ==
    /\ Lookahead
    /\ IsDigit(Peeked) \/ Peeked = Ord["-"]
    /\ Produce(try_get_number(chars, pos))

TokeniseName ==
    /\ Lookahead
    /\ IsNameStart(Peeked)
    /\ Produce(try_get_name(chars, pos))

\* The arm for the six punctuation characters.
TokenisePunctuation ==
    /\ Lookahead
    /\ Peeked \in Punctuation
    /\ LET after == AddColumn(pos, 1)
       IN  Produce(LexOk(Advance(chars), after,
                         Token(PunctuationType(Peeked), <<Peeked>>, after.line, after.column)))

\* The last arm: any other character.
TokeniseUnrecognised ==
    /\ Lookahead
    /\ ~(\/ Peeked \in WhitespaceChars
         \/ Peeked = Ord["\""]
         \/ IsDigit(Peeked) \/ Peeked = Ord["-"]
         \/ IsNameStart(Peeked)
         \/ Peeked \in Punctuation)
    /\ Produce(LexPanic("Unrecognised character", chars, pos))

\* The cursor is exhausted: the loop breaks and tokenise returns the tokens.
TokeniseReturn ==
    /\ pc = "tokenise"
    /\ panic = ""
    /\ IsNone(Peek(chars))
    /\ pc' = "parse"
    /\ UNCHANGED <<text, doc, chars, pos, tokens, token_iter, result, panic>>
    /\ UNCHANGED cursor_vars

\* main calls parse on the tokens.
Parse ==
    /\ pc = "parse"
    /\ panic = ""
    /\ LET out == parse(tokens)
       IN  /\ token_iter' = out.tokens
           /\ panic' = out.panic
           /\ result' = IF out.panic = "" THEN Some(out.node) ELSE None
           /\ pc' = IF out.panic = "" THEN "done" ELSE "parse"
    /\ UNCHANGED <<text, doc, chars, pos, tokens>>
    /\ UNCHANGED cursor_vars

Next ==
    \/ TokeniseNewline
    \/ TokeniseWhitespace
    \/ TokeniseString
    \/ TokeniseNumber
    \/ TokeniseName
    \/ TokenisePunctuation
    \/ TokeniseUnrecognised
    \/ TokeniseReturn
    \/ Parse

Spec == Init /\ [][Next]_vars

(***************************************************************************)
(* The cursors on their own (src/utils.rs): a CharIter or a TokenIter is   *)
(* made over a sequence and peek() and next() are called on it in any      *)
(* order; the pipeline stands still.                                       *)
(***************************************************************************)

\* The longest sequence a cursor is made over.
MaxItems == 3

\* The number of calls of next() past the end of the sequence.
MaxExtraCalls == 2

\* The characters and the tokens the sequences are made of.
CursorChars == {Ord["a"], Ord["b"]}

CursorTokens == {Token("Comma", Str(<<",">>), 1, 1), Token("Int", Str(<<"1">>), 1, 2)}

CursorInit ==
    /\ EnterTokenise(<<>>, NoDoc)
    /\ \E s \in SeqsOf(CursorChars, 0, MaxItems) \cup SeqsOf(CursorTokens, 0, MaxItems) :
            CursorOver(s)

\* cursor.peek()
CursorPeek ==
    /\ last' = [op |-> "peek", out |-> Peek(cursor)]
    /\ UNCHANGED <<input, cursor, calls, taken>>
    /\ UNCHANGED main_vars

\* cursor.next()
CursorNext ==
    /\ calls < Len(input) + MaxExtraCalls
    /\ last' = [op |-> "next", out |-> Peek(cursor)]
    /\ cursor' = Advance(cursor)
    /\ calls' = calls + 1
    /\ taken' = taken \o Peek(cursor)
    /\ UNCHANGED input
    /\ UNCHANGED main_vars

CursorStep == CursorPeek \/ CursorNext

CursorSpec == CursorInit /\ [][CursorStep]_vars

(***************************************************************************)
(* What the claims speak of.                                               *)
(***************************************************************************)

\* tokenise returned its token list.
TokeniseReturned == pc \in {"parse", "done"}

\* tokenise panicked.
TokeniseAborted == pc = "tokenise" /\ panic # ""

\* parse returned a node.
ParseReturned == pc = "done"

\* parse panicked.
ParseAborted == pc = "parse" /\ panic # ""

\* parse was called and ended, one way or the other.
ParseEnded == ParseReturned \/ ParseAborted

\* The run ended: main is through, or the process aborted.
Ended == pc = "done" \/ panic # ""

\* The token cursor over tokens from the i-th on.
CursorAt(i) == IterNew(SubSeq(tokens, i, Len(tokens)))

\* The value of the last of the pairs with key k, in the order of the text.
LastValue(pairs, k) ==
    pairs[CHOOSE i \in 1..Len(pairs) :
            /\ pairs[i][1] = k
            /\ \A j \in (i + 1)..Len(pairs) : pairs[j][1] # k][2]

\* The keys of a sequence of pairs.
KeysOf(pairs) == {pairs[i][1] : i \in 1..Len(pairs)}

\* Several pairs have the same key.
HasDuplicateKey(pairs) ==
    \E i, j \in 1..Len(pairs) : i < j /\ pairs[i][1] = pairs[j][1]

\* The logical shape of a document: node has the variant of d at every level, an
\* array the same number of elements, in order, an object the same keys.
RECURSIVE ShapeMatches(_, _)
ShapeMatches(node, d) ==
    CASE d.kind = "Array" ->
            /\ node.type = "Array"
            /\ Len(node.items) = Len(d.elems)
            /\ \A i \in 1..Len(d.elems) : ShapeMatches(node.items[i], d.elems[i])
      [] d.kind = "Object" ->
            /\ node.type = "Object"
            /\ DOMAIN node.map = KeysOf(d.pairs)
            /\ \A k \in KeysOf(d.pairs) : ShapeMatches(node.map[k], LastValue(d.pairs, k))
      [] OTHER -> node.type = d.kind

\* The literal tokenise gives the key k of an object.
KeyLiteral(k) ==
    try_get_string(IterNew(<<Ord["\""]>> \o k \o <<Ord["\""]>>), StartPos).out.value

\* The token of a simple value, as its production gives it.
LeafToken(d) ==
    CASE d.kind = "String" -> try_get_string(IterNew(Serialise(d)), StartPos).out
      [] d.kind \in {"Integer", "Float"} -> try_get_number(IterNew(Serialise(d)), StartPos).out
      [] OTHER -> try_get_name(IterNew(Serialise(d)), StartPos).out

\* The node of a document: the simple values as parse_simple converts their
\* tokens, the elements of an array in order, each key of an object with the
\* value of its last pair.
RECURSIVE NodeOf(_)
NodeOf(d) ==
    CASE d.kind = "Array" -> NodeArray([i \in 1..Len(d.elems) |-> NodeOf(d.elems[i])])
      [] d.kind = "Object" ->
            NodeObject([key \in {KeyLiteral(k) : k \in KeysOf(d.pairs)} |->
                            NodeOf(LastValue(d.pairs,
                                             CHOOSE k \in KeysOf(d.pairs) : KeyLiteral(k) = key))])
      [] OTHER -> parse_simple(LeafToken(d), IterNew(<<>>)).node

\* The opening tokens that no closing token matches, innermost last: a closing
\* token matches the innermost open one of its kind.
RECURSIVE OpenAtEnd(_, _)
OpenAtEnd(toks, open) ==
    IF Len(toks) = 0 THEN open
    ELSE IF toks[1].tok_type \in {"LSqBrac", "LBrace"}
    THEN OpenAtEnd(Tail(toks), Append(open, toks[1].tok_type))
    ELSE IF /\ Len(open) > 0
            /\ <<open[Len(open)], toks[1].tok_type>>
                    \in {<<"LSqBrac", "RSqBrac">>, <<"LBrace", "RBrace">>}
    THEN OpenAtEnd(Tail(toks), SubSeq(open, 1, Len(open) - 1))
    ELSE OpenAtEnd(Tail(toks), open)

\* The number grammar of the specification, from index i of s on: digits, then
\* an optional point and digits, then an optional e or E, optional minus and
\* digits, to the end of s.
ExponentDigits(s, i) == CountDigits(s, i) >= 1 /\ i + CountDigits(s, i) = Len(s) + 1

ExponentPart(s, i) ==
    \/ i = Len(s) + 1
    \/ /\ HasAt(s, i, {Ord["e"], Ord["E"]})
       /\ ExponentDigits(s, IF HasAt(s, i + 1, {Ord["-"]}) THEN i + 2 ELSE i + 1)

FractionPart(s, i) ==
    IF HasAt(s, i, {Ord["."]})
    THEN CountDigits(s, i + 1) >= 1 /\ ExponentPart(s, i + 1 + CountDigits(s, i + 1))
    ELSE ExponentPart(s, i)

IntegerPart(s, i) == CountDigits(s, i) >= 1 /\ FractionPart(s, i + CountDigits(s, i))

\* s is a single number of the grammar.
IsNumber(s) == IntegerPart(s, IF HasAt(s, 1, {Ord["-"]}) THEN 2 ELSE 1)

\* A number has a fractional part or an exponent part.
HasFractionOrExponent(s) == \E i \in 1..Len(s) : s[i] \in {Ord["."], Ord["e"], Ord["E"]}

\* s is made of the characters tokenise skips.
IsWhitespace(s) == \A i \in 1..Len(s) : s[i] \in WhitespaceChars

\* The variant parse_simple gives a token of a simple kind.
VariantOf(token) ==
    CASE token.tok_type = "Int" -> "Integer"
      [] token.tok_type = "Name" /\ token.value = NullName -> "Null"
      [] token.tok_type = "Name" -> "Bool"
      [] OTHER -> token.tok_type

(***************************************************************************)
(* The claims.                                                             *)
(***************************************************************************)

\* C1: for every text of the grammar (a document, serialised), parse(tokenise(text))
\* ends without a panic and returns a node of the document's shape.
C1_GrammarTextsParseToTheirShape ==
    (doc.kind # "None" /\ Ended) =>
        /\ panic = ""
        /\ ShapeMatches(Unwrap(result), doc)

\* C2: parse on one token of kind Int, Float, String, or Name true, false or null,
\* takes the token and returns one root node of the matching variant without a
\* panic.
C2_OneSimpleTokenParses ==
    (/\ ParseEnded
     /\ Len(tokens) = 1
     /\ tokens[1].tok_type \in SimpleTypes
     /\ tokens[1].tok_type = "Name" => tokens[1].value \in {TrueName, FalseName, NullName}) =>
        /\ panic = ""
        /\ Unwrap(result).type = VariantOf(tokens[1])
        /\ IsNone(Peek(token_iter))

\* C3: an opening bracket directly followed by its closing bracket is a value:
\* parse_array, parse_object take both tokens and return the empty Array, the
\* empty Object, wherever the two tokens stand; and the documents [] and {}
\* parse to them.
C3_EmptyContainersAreValues ==
    /\ TokeniseReturned =>
        \A i \in 1..(Len(tokens) - 1) :
            /\ (tokens[i].tok_type = "LSqBrac" /\ tokens[i + 1].tok_type = "RSqBrac") =>
                    parse_array(CursorAt(i)) = ParseOk(CursorAt(i + 2), NodeArray(<<>>))
            /\ (tokens[i].tok_type = "LBrace" /\ tokens[i + 1].tok_type = "RBrace") =>
                    parse_object(CursorAt(i)) = ParseOk(CursorAt(i + 2), NodeObject(HashMapNew))
    /\ (doc \in {DocArray(<<>>), DocObject(<<>>)} /\ Ended) =>
            panic = "" /\ result = Some(NodeOf(doc))

\* C4: parse returns no node for a token list in which an opening bracket or
\* brace has no matching closing token.
C4_OpenStructureNeverParses ==
    ParseReturned => Len(OpenAtEnd(tokens, <<>>)) = 0

\* C5: when parse returns a node for a token list that is not empty, the token
\* cursor is exhausted; and when the root value was produced with a token left
\* in the cursor, parse panics and returns nothing.
C5_ReturnOnlyWhenConsumed ==
    /\ (ParseReturned /\ Len(tokens) > 0) => Rest(token_iter) = <<>>
    /\ (/\ ParseEnded
        /\ Len(tokens) > 0
        /\ ParseRoot(tokens[1], IterNew(tokens)).panic = ""
        /\ IsSome(Peek(ParseRoot(tokens[1], IterNew(tokens)).tokens))) =>
            /\ panic = "Tokens iterator was not entirely consumed!"
            /\ result = None

\* A token list of several tokens was parsed to a node, the cursor exhausted.
C5_Witness == ParseReturned /\ Len(tokens) >= 3 /\ IsNone(Peek(token_iter))

\* C6: parse on no tokens returns Empty and does not panic; a text of spaces,
\* tabs, carriage returns and newlines only (the empty text too) gives no token
\* and no panic, the run goes on until main is through, and the result is Empty.
C6_NoTokensGiveEmpty ==
    /\ (ParseEnded /\ Len(tokens) = 0) => (panic = "" /\ result = Some(NodeEmpty))
    /\ IsWhitespace(text) =>
        /\ panic = ""
        /\ Len(tokens) = 0
        /\ pc = "done" \/ ENABLED Next
        /\ pc = "done" => result = Some(NodeEmpty)

\* A text of three whitespace characters, a newline among them, was tokenised
\* and parsed.
C6_Witness ==
    /\ pc = "done"
    /\ Len(text) = 3
    /\ IsWhitespace(text)
    /\ \E i \in 1..Len(text) : text[i] = Ord["\n"]
    /\ result = Some(NodeEmpty)

\* C7: an object with several pairs of the same key parses without a panic to
\* an Object with one entry for each key, whose value is that of the last pair
\* with the key.
C7_DuplicateKeysLastWins ==
    (doc.kind = "Object" /\ HasDuplicateKey(doc.pairs) /\ Ended) =>
        /\ panic = ""
        /\ Unwrap(result).type = "Object"
        /\ DOMAIN Unwrap(result).map = {KeyLiteral(k) : k \in KeysOf(doc.pairs)}
        /\ \A k \in KeysOf(doc.pairs) :
                Unwrap(result).map[KeyLiteral(k)] = NodeOf(LastValue(doc.pairs, k))

\* C8: the literal of the String token of a well-formed string literal is the
\* decoded content between the quotes: the quotes left out, each escape replaced
\* by the character it denotes.
C8_StringLiteralIsDecodedContent ==
    doc.kind = "String" =>
        /\ ~TokeniseAborted
        /\ TokeniseReturned =>
            /\ Len(tokens) = 1
            /\ tokens[1].tok_type = "String"
            /\ tokens[1].value = doc.src
            /\ Len(tokens[1].value) = Len(doc.src)

\* C9: a text that is a single number of the grammar gives exactly one token,
\* whose literal is the text, character for character.
C9_NumberLiteralIsSourceText ==
    IsNumber(text) =>
        /\ ~TokeniseAborted
        /\ TokeniseReturned => (Len(tokens) = 1 /\ tokens[1].value = text)

\* C10: the token of a number has kind Int if and only if the number has neither
\* a fractional part nor an exponent part, and kind Float otherwise.
C10_IntIffNoFractionNoExponent ==
    (IsNumber(text) /\ TokeniseReturned /\ Len(tokens) >= 1) =>
        /\ tokens[1].tok_type = "Int" <=> ~HasFractionOrExponent(text)
        /\ tokens[1].tok_type = "Float" <=> HasFractionOrExponent(text)

\* C11: every Int token tokenise returns has a literal that str::parse::<i64>
\* converts and every Float token one that str::parse::<f64> converts, so parse
\* never panics on the conversion of a numeric token.
C11_NumericLiteralsConvert ==
    /\ TokeniseReturned =>
        \A i \in 1..Len(tokens) :
            /\ tokens[i].tok_type = "Int" => IsSome(ParseI64(tokens[i].value))
            /\ tokens[i].tok_type = "Float" => IsSome(ParseF64(tokens[i].value))
    /\ panic \notin {"Failed to parse integer token's internal value",
                     "Failed to parse float token's internal value"}

\* An opening quote and characters of the string, the closing quote missing.
IsUnterminatedString(s) ==
    /\ Len(s) >= 1
    /\ s[1] = Ord["\""]
    /\ \A i \in 2..Len(s) : s[i] \notin {Ord["\""], Ord["\\"], Ord["\n"]}

\* The inputs that end in a lexical error: an unterminated string, a minus sign
\* alone, a number that ends after its point or after its exponent mark.
LexicalErrorInputs == {Str(<<"-">>), Str(<<"1", ".">>), Str(<<"1", "e">>)}

\* The inputs that tokenise but do not parse.
SyntaxErrorInputs == {Str(<<"{">>), Str(<<"[", "1", ",", "]">>)}

\* C12: the inputs {, [1,], an unterminated string literal, -, 1. and 1e all
\* make the run abort: on the lexical ones tokenise never reaches its return (it
\* has characters left until it panics), the others are tokenised and parse
\* returns no node for them.
C12_ErrorInputsAbort ==
    /\ (text \in LexicalErrorInputs \/ IsUnterminatedString(text)) =>
            /\ pc = "tokenise"
            /\ panic = "" => IsSome(Peek(chars))
    /\ text \in SyntaxErrorInputs =>
            /\ pc # "done"
            /\ result = None
            /\ pc = "tokenise" => panic = ""

\* The input [1,] was tokenised and parse panicked on it.
C12_Witness ==
    /\ text = Str(<<"[", "1", ",", "]">>)
    /\ Len(tokens) = 4
    /\ ParseAborted

\* C13: when tokenise returns, every token has a line of 1 or more and a column
\* of 1 or more, and the lines of the tokens never decrease along the list.
C13_PositionsAreOneBasedAndOrdered ==
    TokeniseReturned =>
        \A i \in 1..Len(tokens) :
            /\ tokens[i].line_no >= 1
            /\ tokens[i].col_no >= 1
            /\ i > 1 => tokens[i - 1].line_no <= tokens[i].line_no

\* The index in text of the character the character cursor is at.
Offset == Len(text) - Len(Rest(chars)) + 1

\* The line of the k-th character of s, the first line being 1.
LineOf(s, k) == 1 + Cardinality({i \in 1..(k - 1) : s[i] = Ord["\n"]})

\* The column of the k-th character of s, the first of a line being 1.
ColumnOf(s, k) ==
    Cardinality({i \in 1..k : \A j \in i..(k - 1) : s[j] # Ord["\n"]})

\* C14: the position of every token is the line and column, counted from 1, of
\* the first character of the token in the text, whatever the kind of the token:
\* a step of tokenise that pushes a token stamps it with the position of the
\* character the cursor was at before the step.
C14_PositionIsFirstCharacter ==
    [][Len(tokens') = Len(tokens) + 1 =>
            /\ tokens'[Len(tokens')].line_no = LineOf(text, Offset)
            /\ tokens'[Len(tokens')].col_no = ColumnOf(text, Offset)]_vars

\* The characters that may follow a backslash.
EscapeChars ==
    {Ord["\""], Ord["\\"], Ord["/"], Ord["b"], Ord["f"], Ord["n"], Ord["r"], Ord["t"],
     Ord["u"]}

\* What a string literal whose body starts at index i of s runs into: the
\* closing quote ("closed"), or the first of the faults of the list.
RECURSIVE StringFault(_, _)
StringFault(s, i) ==
    IF i > Len(s) THEN "eof in string"
    ELSE IF s[i] = Ord["\n"] THEN "newline in string"
    ELSE IF s[i] = Ord["\""] THEN "closed"
    ELSE IF s[i] # Ord["\\"] THEN StringFault(s, i + 1)
    ELSE IF i + 1 > Len(s) THEN "eof after backslash"
    ELSE IF s[i + 1] \notin EscapeChars THEN "invalid escape"
    ELSE IF s[i + 1] # Ord["u"] THEN StringFault(s, i + 2)
    ELSE IF \E j \in (i + 2)..(i + 5) :
                /\ j <= Len(s)
                /\ ~IsHexDigit(s[j])
                /\ \A k \in (i + 2)..(j - 1) : IsHexDigit(s[k])
    THEN "invalid hex digit"
    ELSE IF i + 5 > Len(s) THEN "eof in unicode escape"
    ELSE StringFault(s, i + 6)

\* The text starts with a string literal that has one of the faults.
HasStringFault == Len(text) >= 1 /\ text[1] = Ord["\""] /\ StringFault(text, 2) # "closed"

\* C15: a string literal with an unescaped newline, with the end of the input
\* before its closing quote, after a backslash or inside a \u escape, with a
\* backslash before a character that names no escape, or with a \u before a
\* character that is no hex digit, makes tokenise panic: it never reaches its
\* return (it has characters left until it panics) and pushes no token.
C15_StringFaultsAbort ==
    HasStringFault =>
        /\ pc = "tokenise"
        /\ Len(tokens) = 0
        /\ panic = "" => IsSome(Peek(chars))

\* tokenise panicked on a literal with a \u before a character that is no hex
\* digit.
C15_Witness ==
    /\ HasStringFault
    /\ StringFault(text, 2) = "invalid hex digit"
    /\ TokeniseAborted

\* s is a string literal whose body is one \u escape with four hex digits.
IsUnicodeLiteral(s) ==
    /\ Len(s) = 8
    /\ s[1] = Ord["\""] /\ s[2] = Ord["\\"] /\ s[3] = Ord["u"] /\ s[8] = Ord["\""]
    /\ \A i \in 4..7 : IsHexDigit(s[i])

\* The number four hex digits write.
HexValue(s) ==
    4096 * HexDigitValue(s[1]) + 256 * HexDigitValue(s[2]) + 16 * HexDigitValue(s[3])
        + HexDigitValue(s[4])

\* C16: a \u escape with any four hex digits is decoded to the one character
\* whose code point the digits write, and the conversion does not fail: tokenise
\* does not panic on the literal, and the String token holds that character
\* (between the quotes, if the literal keeps them).
C16_UnicodeEscapeAlwaysDecodes ==
    IsUnicodeLiteral(text) =>
        /\ ~TokeniseAborted
        /\ TokeniseReturned =>
            /\ Len(tokens) = 1
            /\ tokens[1].tok_type = "String"
            /\ tokens[1].value \in
                    {<<HexValue(SubSeq(text, 4, 7))>>,
                     <<Ord["\""], HexValue(SubSeq(text, 4, 7)), Ord["\""]>>}

\* The token is a Name that is none of true, false and null.
IsUndefinedName(token) ==
    token.tok_type = "Name" /\ token.value \notin {TrueName, FalseName, NullName}

\* C17: a Name token that is not exactly true, false or null makes parse panic:
\* parse_simple panics on it, and parse returns no node for a token list that
\* has one; on the three names parse_simple returns Bool(true), Bool(false) and
\* Null.
C17_OnlyThreeNamesAreValues ==
    TokeniseReturned =>
        /\ \A i \in 1..Len(tokens) :
            /\ IsUndefinedName(tokens[i]) =>
                    /\ parse_simple(tokens[i], CursorAt(i + 1)).panic
                            = "Failed to parse undefined name"
                    /\ ~ParseReturned
            /\ (tokens[i].tok_type = "Name" /\ ~IsUndefinedName(tokens[i])) =>
                    parse_simple(tokens[i], CursorAt(i + 1))
                        = ParseOk(CursorAt(i + 1),
                                  CASE tokens[i].value = TrueName -> NodeBool(TRUE)
                                    [] tokens[i].value = FalseName -> NodeBool(FALSE)
                                    [] OTHER -> NodeNull)
        /\ (ParseAborted /\ panic = "Failed to parse undefined name") =>
                \E i \in 1..Len(tokens) : IsUndefinedName(tokens[i])

\* parse panicked on an undefined name in an array, after an element.
C17_Witness ==
    /\ ParseAborted
    /\ panic = "Failed to parse undefined name"
    /\ Len(tokens) >= 4
    /\ tokens[1].tok_type = "LSqBrac"
    /\ IsUndefinedName(tokens[4])

\* The grammar of the specification read over the kinds of a token list t, from
\* index i: "ok" with the index after the value, "eof" when the list ends inside
\* the value, "unexpected" at the first token of a kind the grammar does not
\* allow where it stands.
GrammarOk(i) == [st |-> "ok", at |-> i]

GrammarEof(i) == [st |-> "eof", at |-> i]

GrammarUnexpected(i) == [st |-> "unexpected", at |-> i]

RECURSIVE GrammarValue(_, _), GrammarItems(_, _), GrammarPairs(_, _)

\* value := object | array | simple
GrammarValue(t, i) ==
    IF i > Len(t) THEN GrammarEof(i)
    ELSE CASE t[i].tok_type = "LSqBrac" ->
                IF i + 1 <= Len(t) /\ t[i + 1].tok_type = "RSqBrac" THEN GrammarOk(i + 2)
                ELSE GrammarItems(t, i + 1)
           [] t[i].tok_type = "LBrace" ->
                IF i + 1 <= Len(t) /\ t[i + 1].tok_type = "RBrace" THEN GrammarOk(i + 2)
                ELSE GrammarPairs(t, i + 1)
           [] t[i].tok_type \in SimpleTypes -> GrammarOk(i + 1)
           [] OTHER -> GrammarUnexpected(i)

\* After a value at v of an array or an object closed by the kind close: a comma
\* and More from the index after it, or the closing token.
GrammarAfter(t, v, close, More(_, _)) ==
    IF v.st # "ok" THEN v
    ELSE IF v.at > Len(t) THEN GrammarEof(v.at)
    ELSE IF t[v.at].tok_type = "Comma" THEN More(t, v.at + 1)
    ELSE IF t[v.at].tok_type = close THEN GrammarOk(v.at + 1)
    ELSE GrammarUnexpected(v.at)

\* value (',' value)* ']'
GrammarItems(t, i) == GrammarAfter(t, GrammarValue(t, i), "RSqBrac", GrammarItems)

\* pair (',' pair)* '}', pair := String ':' value
GrammarPairs(t, i) ==
    IF i > Len(t) THEN GrammarEof(i)
    ELSE IF t[i].tok_type # "String" THEN GrammarUnexpected(i)
    ELSE IF i + 1 > Len(t) THEN GrammarEof(i + 1)
    ELSE IF t[i + 1].tok_type # "Colon" THEN GrammarUnexpected(i + 1)
    ELSE GrammarAfter(t, GrammarValue(t, i + 2), "RBrace", GrammarPairs)

\* C18: parse panics whenever the token list has a token of a kind the grammar
\* does not allow where it stands: a key that is no String, no Colon after a key,
\* a token that is neither Comma nor the closing token after an element or a
\* pair, a Comma, Colon or closing token where a value must start.
C18_WrongKindAborts ==
    (ParseEnded /\ GrammarValue(tokens, 1).st = "unexpected") => ParseAborted

\* The n-th item of the input of the cursor, or none when there is no such item.
ItemAt(n) == IF n >= 1 /\ n <= Len(input) THEN Some(input[n]) ELSE None

\* The first n items of the input, all of them when it has fewer.
FirstItems(n) == SubSeq(input, 1, IF n <= Len(input) THEN n ELSE Len(input))

\* C19: a cursor, CharIter or TokenIter, keeps the one-item lookahead contract
\* after any calls: peek() returns the item after those next() has returned and
\* leaves the cursor as it is, so that two peeks in a row return the same;
\* next() returns the item the peek before it returned and moves on by one; past
\* the end both return none, on every call; and the calls of next() return the
\* items of the input in order, each once.
C19_CursorContract ==
    /\ [](/\ Peek(cursor) = ItemAt(calls + 1)
          /\ last.op = "peek" => last.out = ItemAt(calls + 1)
          /\ last.op = "next" => last.out = ItemAt(calls)
          /\ taken = FirstItems(calls))
    /\ [][/\ last'.op = "peek" => cursor' = cursor /\ taken' = taken
          /\ (last'.op = "peek" /\ last.op = "peek") => last'.out = last.out
          /\ (last'.op = "next" /\ last.op = "peek") => last'.out = last.out
          /\ (last'.op = "next" /\ Len(taken) = Len(input)) =>
                    IsNone(last'.out) /\ IsNone(Peek(cursor'))]_vars

\* A cursor returned the three items of its input, two of them different, then
\* none, twice.
C19_Witness ==
    /\ Len(input) = 3
    /\ input[1] # input[2]
    /\ taken = input
    /\ calls = Len(input) + 2
    /\ last.op = "next"
    /\ IsNone(last.out)

\* The number of characters tokenise has not yet consumed.
Unconsumed == Len(Rest(chars))

\* C20: tokenise ends on every input, by returning or by a panic: the characters
\* not yet consumed are always the end of the text from some index on and never
\* grow in number (nothing is read twice), every step of the dispatch loop that
\* neither returns nor panics consumes one character at least, so that the loop
\* takes no more steps than the text has characters, and tokenise returns only
\* when its cursor is exhausted.
C20_TokeniseTerminates ==
    /\ [](Rest(chars) = SubSeq(text, Len(text) - Unconsumed + 1, Len(text)))
    /\ [][/\ Len(Rest(chars')) <= Unconsumed
          /\ (pc = "tokenise" /\ pc' = "tokenise" /\ panic' = "") =>
                    Len(Rest(chars')) < Unconsumed
          /\ (pc = "tokenise" /\ pc' # "tokenise") =>
                    (IsNone(Peek(chars)) /\ Unconsumed = 0)]_vars

\* tokenise returned after it consumed a text of two lines with a string, a
\* number and a name in it.
C20_Witness ==
    /\ TokeniseReturned
    /\ Unconsumed = 0
    /\ Len(text) >= 10
    /\ \E i \in 1..Len(text) : text[i] = Ord["\n"]
    /\ \E i \in 1..Len(tokens) : tokens[i].tok_type = "String"
    /\ \E i \in 1..Len(tokens) : tokens[i].tok_type = "Name"

\* The panics that are no error of the input: an unwrap of None, and the arm of
\* parse_simple for a token of no simple kind.
UncheckedPanics ==
    {"called Option::unwrap() on a None value", "Cannot parse token with invalid type"}

\* C21: the unchecked unwraps and the unreachable arms never fire: parse_array,
\* parse_object, parse_simple, try_get_string and try_grab_integer are entered
\* only on the lookahead they expect, so that every panic of tokenise or parse
\* is one of the panics with a message of its own, never an unwrap of None.
C21_OnlyExplicitPanics == panic \notin UncheckedPanics

====
